---- MODULE Spec2Model ----
(***************************************************************************)
(* Model of src/classic.py: the /swap endpoint (swap_tokens) and the       *)
(* InchSwapper workflow it drives: setup, allowance check, conditional     *)
(* approval (build, sign, broadcast, receipt wait), swap build, swap sign  *)
(* and broadcast.  The quoting service (1inch HTTP API) and the chain node *)
(* (web3 RPC) are the environment: every answer they can give is a         *)
(* nondeterministic input of the step that calls them.                     *)
(***************************************************************************)
EXTENDS Integers, Sequences, FiniteSets, TLC

(***************************************************************************)
(* Bounds of the model.                                                    *)
(***************************************************************************)
MaxAmount == 1
MaxNonce == 0
MaxGasEstimate == 1

(***************************************************************************)
(* Program constants.                                                      *)
(***************************************************************************)
FALLBACK_GAS == 500000

SupportedChains == {1, 10, 8453, 42161}

\* chain_rpc_urls of InchSwapper.__init__: chain ID -> RPC endpoint
chain_rpc_urls ==
    [c \in SupportedChains |->
        CASE c = 1     -> "https://eth-mainnet.g.alchemy.com/v2/"
          [] c = 10    -> "https://opt-mainnet.g.alchemy.com/v2/"
          [] c = 8453  -> "https://base-mainnet.g.alchemy.com/v2/"
          [] c = 42161 -> "https://arb-mainnet.g.alchemy.com/v2/"]

(***************************************************************************)
(* Python values.  A value is a record [t, v]: an int, a str (a sequence   *)
(* of characters), None, or the marker of a key missing from a dict.       *)
(***************************************************************************)
IntV(n) == [t |-> "int", v |-> n]
StrV(s) == [t |-> "str", v |-> s]
NoneV == [t |-> "none", v |-> 0]
Absent == [t |-> "absent", v |-> 0]
\* the outcome of an expression that raised
Raised == [t |-> "raised", v |-> 0]

DigitVal ==
    [c \in {"0", "1", "2", "3", "4", "5", "6", "7", "8", "9", "a", "b", "c", "d", "e", "f"} |->
        CASE c = "0" -> 0 [] c = "1" -> 1 [] c = "2" -> 2 [] c = "3" -> 3
          [] c = "4" -> 4 [] c = "5" -> 5 [] c = "6" -> 6 [] c = "7" -> 7
          [] c = "8" -> 8 [] c = "9" -> 9 [] c = "a" -> 10 [] c = "b" -> 11
          [] c = "c" -> 12 [] c = "d" -> 13 [] c = "e" -> 14 [] c = "f" -> 15]

RECURSIVE ParseDigits(_, _, _)
\* the digits of s read in base b on top of acc; -1 when a character is no digit of that base
ParseDigits(s, b, acc) ==
    IF s = <<>> THEN acc
    ELSE IF Head(s) \in DOMAIN DigitVal /\ DigitVal[Head(s)] < b
         THEN ParseDigits(Tail(s), b, acc * b + DigitVal[Head(s)])
         ELSE -1

\* Python's int(s, b) on a str: a 0x prefix is accepted in base 16 only
ParseInt(s, b) ==
    LET body == IF b = 16 /\ Len(s) >= 2 /\ s[1] = "0" /\ s[2] = "x"
                THEN SubSeq(s, 3, Len(s)) ELSE s
    IN IF body = <<>> THEN -1 ELSE ParseDigits(body, b, 0)

\* str.startswith('0x')
StartsWith0x(s) == Len(s) >= 2 /\ s[1] = "0" /\ s[2] = "x"

\* int(x) of Python on one value: IntV(n), or Raised
PyInt(x) ==
    CASE x.t = "int" -> x
      [] x.t = "str" -> (IF ParseInt(x.v, 10) >= 0 THEN IntV(ParseInt(x.v, 10)) ELSE Raised)
      [] OTHER -> Raised

\* the conversion of lines 168 and 222 applied to one field of a transaction
ToNativeInt(x) ==
    CASE x.t = "absent" -> x
      [] x.t = "int" -> x
      [] x.t = "str" /\ StartsWith0x(x.v) ->
            (IF ParseInt(x.v, 16) >= 0 THEN IntV(ParseInt(x.v, 16)) ELSE Raised)
      [] OTHER -> PyInt(x)

(***************************************************************************)
(* Addresses.  An address string is [id, form]: the account it names and   *)
(* the way it is written.                                                  *)
(*   checksum  0x + 40 hex digits in EIP-55 case                           *)
(*   lower     0x + 40 lowercase hex digits                                *)
(*   mixed     0x + 40 hex digits in a case that is not the EIP-55 one     *)
(*   noprefix  40 lowercase hex digits without 0x                          *)
(*   bad0x     0x followed by something that is no 20-byte hex string      *)
(*   bad       no address and no 0x prefix                                 *)
(***************************************************************************)
Addr(i, f) == [id |-> i, form |-> f]
BadAddress == Addr("none", "raised")
\* the 'to' of a transaction dict without that key
NoAddr == Addr("none", "absent")

\* str.lower() on an address string
Lower(a) == IF a.form \in {"checksum", "mixed"} THEN Addr(a.id, "lower") ELSE a

\* Web3.to_checksum_address: the canonical form, or a ValueError
Web3ToChecksum(a) ==
    IF a.form \in {"checksum", "lower", "mixed", "noprefix"} THEN Addr(a.id, "checksum") ELSE BadAddress

\* InchSwapper.to_checksum_address
to_checksum_address(a) ==
    IF a.form \in {"checksum", "lower", "mixed", "bad0x"} THEN Web3ToChecksum(Lower(a)) ELSE a

(***************************************************************************)
(* Transactions.  A transaction dict is a record of its keys; a key the    *)
(* dict does not hold is Absent.                                           *)
(***************************************************************************)
NumericKeys == {"gas", "gasPrice", "value", "nonce"}

Tx(to, from, value, gas, gasPrice, nonce, chainId) ==
    [to |-> to, from |-> from, value |-> value, gas |-> gas,
     gasPrice |-> gasPrice, nonce |-> nonce, chainId |-> chainId]

NoTx == [to |-> NoAddr, from |-> NoAddr, value |-> NoneV, gas |-> NoneV,
         gasPrice |-> NoneV, nonce |-> NoneV, chainId |-> NoneV]

\* the loop of lines 166-168 and 220-222 with gasPrice missing from its key list
convert_numeric_skip_gasPrice(tx) ==
    [k \in DOMAIN tx |-> IF k \in NumericKeys \ {"gasPrice"} THEN ToNativeInt(tx[k]) ELSE tx[k]]

\* lines 165-168 and 219-222: every numeric key that is present becomes an int
convert_numeric(tx) ==
    [k \in DOMAIN tx |-> IF k \in NumericKeys THEN ToNativeInt(tx[k]) ELSE tx[k]]

\* the conversion loop raised on one of the keys
ConvertRaised(tx) == \E k \in NumericKeys : convert_numeric(tx)[k] = Raised

\* lines 142-152: the approval payload with the account's fields filled in
approve_enrich(payload, wallet, nonce, chain) ==
    [payload EXCEPT !.to = IF payload.to = NoAddr THEN NoAddr ELSE to_checksum_address(payload.to),
                    !.from = wallet,
                    !.nonce = nonce,
                    !.chainId = IntV(chain),
                    !.value = IntV(0)]

\* lines 154-163: the gas limit of the approval, est being the node's estimate or Raised
approve_gas(est) == IF est = Raised THEN IntV(FALLBACK_GAS) ELSE est

\* lines 194-203 without the assignment of line 199
swap_enrich_keep_from(payload, wallet, nonce, chain) ==
    [payload EXCEPT !.to = IF payload.to = NoAddr THEN NoAddr ELSE to_checksum_address(payload.to),
                    !.nonce = nonce,
                    !.chainId = IntV(chain)]

\* lines 194-203: the swap payload with the account's fields filled in
swap_enrich(payload, wallet, nonce, chain) ==
    [payload EXCEPT !.to = IF payload.to = NoAddr THEN NoAddr ELSE to_checksum_address(payload.to),
                    !.from = wallet,
                    !.nonce = nonce,
                    !.chainId = IntV(chain)]

\* line 206: 'gas' not in transaction or transaction['gas'] == 0
swap_needs_estimate(tx) == tx.gas = Absent \/ tx.gas = IntV(0)

\* lines 207-217 without the except branch: the failed estimate is what the dict gets
swap_gas_no_fallback(est) == est

\* lines 207-217: the gas limit of the swap when it is estimated
swap_gas(est) == IF est = Raised THEN IntV(FALLBACK_GAS) ELSE est

\* lines 233-236 with the test for a missing key only
ensure_gas_missing_only(tx) ==
    IF tx.gas = Absent THEN [tx EXCEPT !.gas = IntV(FALLBACK_GAS)] ELSE tx

\* lines 233-236: sign_and_send_transaction's own gas check
ensure_gas(tx) ==
    IF tx.gas = Absent \/ tx.gas = IntV(0) THEN [tx EXCEPT !.gas = IntV(FALLBACK_GAS)] ELSE tx

\* lines 117-122 without the substitution of line 122: the failure reaches the caller as None
check_allowance_result_no_default(resp) ==
    CASE resp.status = "http_error" -> NoneV
      [] resp.status = "no_field" -> NoneV
      [] OTHER -> resp.allowance

\* lines 117-122: what check_allowance returns for a response of the quoting service
check_allowance_result(resp) ==
    CASE resp.status = "http_error" -> StrV(<<"0">>)
      [] resp.status = "no_field" -> NoneV
      [] OTHER -> resp.allowance

\* the comparison of line 265 written with <=
insufficient_le(allowance, amount) == allowance <= amount

\* line 265: int(allowance) < int(amount), on two ints
insufficient(allowance, amount) == allowance < amount

(***************************************************************************)
(* Process-wide configuration (lines 11-13).                               *)
(***************************************************************************)
INCH_API_KEY == "INCH_API_KEY"

(***************************************************************************)
(* The trace of calls a request makes to the outside: pauses, requests to  *)
(* the quoting service, calls of the chain node and of the local signer.   *)
(***************************************************************************)
Ev(op, phase, ok, data) == [op |-> op, phase |-> phase, ok |-> ok, data |-> data]

\* the builders and check_allowance without their pause
rate_limit_pause_none(phase) == <<>>

\* lines 115, 135 and 187: the pause each operation takes before its request to the quoting service
rate_limit_pause(phase) ==
    <<Ev("sleep", phase, TRUE,
         CASE phase = "allowance" -> 1 [] phase = "approve" -> 2 [] OTHER -> 3)>>

(***************************************************************************)
(* Inputs: what a caller can send and what the two services can answer.    *)
(***************************************************************************)
Digits == <<"0", "1", "2", "3", "4", "5", "6", "7", "8", "9">>
DecStr(n) == StrV(<<Digits[n + 1]>>)

ChainIds == SupportedChains \cup {5}
WalletInputs == {Addr("wallet", "lower"), Addr("wallet", "bad")}
SrcInputs == {Addr("src", "lower"), Addr("src", "noprefix"), Addr("src", "bad0x")}
DstInputs == {Addr("dst", "mixed")}
AmountInputs == {DecStr(n) : n \in 0..MaxAmount} \cup {StrV(<<"x">>)}
KeyInputs == {"key1"}

Requests ==
    [wallet_address : WalletInputs, private_key : KeyInputs, chain_id : ChainIds,
     src_token : SrcInputs, dst_token : DstInputs, amount : AmountInputs]

\* requests that differ in the private key and in nothing else, on one chain
TwoKeys == {"key1", "key2"}
KeyRequests ==
    [wallet_address : {Addr("wallet", "lower")}, private_key : TwoKeys, chain_id : {1},
     src_token : {Addr("src", "lower"), Addr("src", "noprefix")}, dst_token : DstInputs,
     amount : {DecStr(n) : n \in 0..MaxAmount}]

NoRequest ==
    [wallet_address |-> NoAddr, private_key |-> "", chain_id |-> 0,
     src_token |-> NoAddr, dst_token |-> NoAddr, amount |-> NoneV]

AllowanceResponses ==
    {[status |-> "ok", allowance |-> DecStr(n)] : n \in 0..MaxAmount}
    \cup {[status |-> "http_error", allowance |-> NoneV], [status |-> "no_field", allowance |-> NoneV]}

RouterInputs == {Addr("router", "lower")}

ApprovePayloads ==
    {Tx(to, NoAddr, value, gas, gasPrice, Absent, Absent) :
        to \in RouterInputs,
        value \in {Absent, StrV(<<"0">>), StrV(<<"5">>)},
        gas \in {Absent, StrV(<<"9">>)},
        gasPrice \in {Absent, StrV(<<"0", "x", "1", "0">>), StrV(<<"z">>)}}

SwapPayloads ==
    {Tx(to, from, value, gas, gasPrice, Absent, Absent) :
        to \in RouterInputs,
        from \in {Addr("wallet", "lower")},
        value \in {Absent, StrV(<<"0", "x", "1", "0">>), IntV(1)},
        gas \in {Absent, IntV(0), StrV(<<"0">>), StrV(<<"0", "x", "0">>), StrV(<<"0", "x", "1", "f">>)},
        gasPrice \in {StrV(<<"1", "0">>), StrV(<<"z">>)}}

\* an answer of the quoting service to a payload request: an HTTP error, a body without the payload, or the payload
PayloadResponses(payloads) ==
    {[status |-> "http_error", tx |-> NoTx], [status |-> "malformed", tx |-> NoTx]}
    \cup {[status |-> "ok", tx |-> p] : p \in payloads}

NonceResults == {IntV(n) : n \in 0..MaxNonce} \cup {Raised}
EstimateResults == {IntV(g) : g \in 0..MaxGasEstimate} \cup {Raised}
\* the hash the node returns for the broadcast of a phase's transaction
TxHash(phase) == IF phase = "approve" THEN "0xaa" ELSE "0xbb"
NoHash == "None"
SendResults(phase) == {TxHash(phase), "raised"}

(***************************************************************************)
(* State.                                                                  *)
(***************************************************************************)
VARIABLES
    AUTO_APPROVE,    \* the process-wide auto-approval flag (line 13)
    pc,              \* where the request is in swap_tokens / perform_swap
    request,         \* the SwapRequest
    wallet_address,  \* InchSwapper.wallet_address
    rpc_url,         \* the endpoint InchSwapper.web3 is built on
    src_token,       \* perform_swap's src_token
    dst_token,       \* perform_swap's dst_token
    allowance,       \* perform_swap's allowance
    approval_tx,     \* perform_swap's approval_tx
    swap_tx,         \* perform_swap's swap_tx
    quoted_tx,       \* the payload the quoting service returned to the builder that ran last
    signed_tx,       \* the transaction_dict sign_and_send_transaction passes to the signer
    result,          \* perform_swap's result
    response,        \* what the caller of /swap gets: "none", "outcome" (result) or "http500"
    log,             \* the calls made so far
    suspended        \* the frame of the other request in flight, paused at an await

vars == <<AUTO_APPROVE, pc, request, wallet_address, rpc_url, src_token, dst_token,
          allowance, approval_tx, swap_tx, quoted_tx, signed_tx, result, response, log,
          suspended>>

(***************************************************************************)
(* Requests to the quoting service.                                        *)
(***************************************************************************)
AddressKeys == {"tokenAddress", "walletAddress", "src", "dst", "from"}

\* lines 89-103 sent with headers built from self.private_key in place of self.api_key
api_request_url_key_as_bearer(method, params) ==
    [method |-> method,
     params |-> [k \in DOMAIN params |->
                    IF k \in AddressKeys /\ to_checksum_address(params[k]) # BadAddress
                    THEN to_checksum_address(params[k]) ELSE params[k]],
     headers |-> request.private_key]

\* lines 89-103: the request as it is sent, address parameters converted where they convert
api_request_url(method, params) ==
    [method |-> method,
     params |-> [k \in DOMAIN params |->
                    IF k \in AddressKeys /\ to_checksum_address(params[k]) # BadAddress
                    THEN to_checksum_address(params[k]) ELSE params[k]],
     headers |-> INCH_API_KEY]

NoResult == [success |-> FALSE, message |-> "", tx_hash |-> NoHash, approval_tx_hash |-> NoHash]

\* lines 335-346: what one request owns, its InchSwapper and the locals of perform_swap
Frame ==
    [pc |-> pc, request |-> request, wallet_address |-> wallet_address, rpc_url |-> rpc_url,
     src_token |-> src_token, dst_token |-> dst_token, allowance |-> allowance,
     approval_tx |-> approval_tx, swap_tx |-> swap_tx, quoted_tx |-> quoted_tx,
     signed_tx |-> signed_tx, result |-> result, response |-> response, log |-> log]

\* the frame of a request that has not arrived
IdleFrame ==
    [pc |-> "idle", request |-> NoRequest, wallet_address |-> NoAddr, rpc_url |-> "None",
     src_token |-> NoAddr, dst_token |-> NoAddr, allowance |-> NoneV,
     approval_tx |-> NoTx, swap_tx |-> NoTx, quoted_tx |-> NoTx,
     signed_tx |-> NoTx, result |-> NoResult, response |-> "none", log |-> <<>>]

Init ==
    /\ suspended = IdleFrame
    /\ AUTO_APPROVE \in BOOLEAN
    /\ pc = "idle"
    /\ request = NoRequest
    /\ wallet_address = NoAddr
    /\ rpc_url = "None"
    /\ src_token = NoAddr
    /\ dst_token = NoAddr
    /\ allowance = NoneV
    /\ approval_tx = NoTx
    /\ swap_tx = NoTx
    /\ quoted_tx = NoTx
    /\ signed_tx = NoTx
    /\ result = NoResult
    /\ response = "none"
    /\ log = <<>>

\* lines 349-350: an exception that reaches swap_tokens becomes HTTP 500
Http500 ==
    /\ pc' = "done"
    /\ response' = "http500"

\* a return of perform_swap: lines 341-348 hand result to the caller
Return ==
    /\ pc' = "done"
    /\ response' = "outcome"

(***************************************************************************)
(* swap_tokens and InchSwapper.__init__                                    *)
(***************************************************************************)
\* a POST /swap arrives
ReceiveRequest ==
    /\ pc = "idle"
    /\ \E r \in Requests : request' = r
    /\ pc' = "setup"
    /\ UNCHANGED <<suspended, quoted_tx, AUTO_APPROVE, wallet_address, rpc_url, src_token, dst_token, allowance,
                   approval_tx, swap_tx, signed_tx, result, response, log>>

\* lines 48-60 with a default endpoint in place of the ValueError of line 58
resolve_rpc_default_mainnet(chain) ==
    IF chain \in DOMAIN chain_rpc_urls THEN chain_rpc_urls[chain] ELSE chain_rpc_urls[1]

\* lines 48-60: the endpoint of a chain ID, "raised" for the ValueError of line 58
resolve_rpc(chain) ==
    IF chain \in DOMAIN chain_rpc_urls THEN chain_rpc_urls[chain] ELSE "raised"

\* lines 335-339 and 42-68: the constructor; it makes no call to either service
Setup ==
    /\ pc = "setup"
    /\ IF Web3ToChecksum(request.wallet_address) = BadAddress \/ resolve_rpc(request.chain_id) = "raised"
       THEN /\ Http500
            /\ UNCHANGED <<wallet_address, rpc_url>>
       ELSE /\ wallet_address' = Web3ToChecksum(request.wallet_address)
            /\ rpc_url' = resolve_rpc(request.chain_id)
            /\ pc' = "perform_swap"
            /\ UNCHANGED response
    /\ UNCHANGED <<suspended, quoted_tx, AUTO_APPROVE, request, src_token, dst_token, allowance,
                   approval_tx, swap_tx, signed_tx, result, log>>

(***************************************************************************)
(* InchSwapper.perform_swap                                                *)
(***************************************************************************)
\* lines 250-259: the empty result and the two token addresses
PerformSwapBegin ==
    /\ pc = "perform_swap"
    /\ result' = NoResult
    /\ IF to_checksum_address(request.src_token) = BadAddress
          \/ to_checksum_address(request.dst_token) = BadAddress
       THEN /\ Http500
            /\ UNCHANGED <<src_token, dst_token>>
       ELSE /\ src_token' = to_checksum_address(request.src_token)
            /\ dst_token' = to_checksum_address(request.dst_token)
            /\ pc' = "check_allowance"
            /\ UNCHANGED response
    /\ UNCHANGED <<suspended, quoted_tx, AUTO_APPROVE, request, wallet_address, rpc_url, allowance,
                   approval_tx, swap_tx, signed_tx, log>>

\* lines 261-263 and 105-122: check_allowance
CheckAllowance ==
    /\ pc = "check_allowance"
    /\ \E resp \in AllowanceResponses :
          /\ allowance' = check_allowance_result(resp)
          /\ log' = log \o rate_limit_pause("allowance") \o <<
                             Ev("api", "allowance", resp.status # "http_error",
                                api_request_url("/approve/allowance",
                                    [tokenAddress |-> to_checksum_address(src_token),
                                     walletAddress |-> wallet_address]))>>
    /\ pc' = "decide"
    /\ UNCHANGED <<suspended, quoted_tx, AUTO_APPROVE, request, wallet_address, rpc_url, src_token, dst_token,
                   approval_tx, swap_tx, signed_tx, result, response>>

\* lines 265-294 with the test of line 269 left out
after_decision_always_approve(short, auto) ==
    IF short THEN "approve_build" ELSE "swap_build"

\* lines 265-294: where perform_swap goes once both numbers are parsed
after_decision(short, auto) ==
    IF short THEN (IF auto THEN "approve_build" ELSE "return") ELSE "swap_build"

\* lines 265-294: the approval decision
Decide ==
    /\ pc = "decide"
    /\ IF PyInt(allowance) = Raised \/ PyInt(request.amount) = Raised
       THEN /\ Http500
            /\ UNCHANGED result
       ELSE LET next == after_decision(insufficient(PyInt(allowance).v, PyInt(request.amount).v),
                                       AUTO_APPROVE)
            IN IF next = "return"
               THEN /\ result' = [result EXCEPT !.message = "Insufficient allowance and auto-approve is disabled"]
                    /\ Return
               ELSE /\ pc' = next
                    /\ UNCHANGED <<result, response>>
    /\ UNCHANGED <<suspended, quoted_tx, AUTO_APPROVE, request, wallet_address, rpc_url, src_token, dst_token, allowance,
                   approval_tx, swap_tx, signed_tx, log>>

(***************************************************************************)
(* The two builders.  Each returns [raised, tx, log]: whether an exception *)
(* left the try block, the transaction built, and the calls made.          *)
(***************************************************************************)
Built(raised, tx, calls) == [raised |-> raised, tx |-> tx, log |-> calls]

\* line 271 passing the swap amount on to the builder
approve_amount_argument_swap_amount == request.amount

\* line 271: perform_swap calls the builder with the token only, amount keeps its default None
approve_amount_argument == NoneV

\* lines 127-130: the query parameters of the approval payload request
approve_params(token, amount) ==
    IF amount # NoneV
    THEN [tokenAddress |-> to_checksum_address(token), amount |-> amount]
    ELSE [tokenAddress |-> to_checksum_address(token)]

\* lines 124-173: build_tx_for_approve_trade_with_router(token_address), amount left at None
build_tx_for_approve(token, wallet, chain, resp, nres, est) ==
    LET req == rate_limit_pause("approve") \o <<
                 Ev("api", "approve", resp.status = "ok",
                    api_request_url("/approve/transaction",
                                    approve_params(token, approve_amount_argument)))>>
        nonceCall == <<Ev("nonce", "approve", nres # Raised, nres)>>
        estCall == <<Ev("estimate_gas", "approve", est # Raised, est)>>
        enriched == approve_enrich(resp.tx, wallet, nres, chain)
        withGas == [enriched EXCEPT !.gas = approve_gas(est)]
    IN CASE resp.status # "ok" -> Built(TRUE, NoTx, req)
         [] resp.status = "ok" /\ enriched.to = BadAddress -> Built(TRUE, NoTx, req)
         [] resp.status = "ok" /\ enriched.to # BadAddress /\ nres = Raised ->
                Built(TRUE, NoTx, req \o nonceCall)
         [] OTHER ->
                IF ConvertRaised(withGas)
                THEN Built(TRUE, NoTx, req \o nonceCall \o estCall)
                ELSE Built(FALSE, convert_numeric(withGas), req \o nonceCall \o estCall)

\* lines 299-307: the parameters of the swap request
swap_params(src, dst, amount, wallet) ==
    [src |-> src, dst |-> dst, amount |-> amount, from |-> wallet,
     slippage |-> "slippage", disableEstimate |-> FALSE, allowPartialFill |-> TRUE]

\* lines 175-228: build_tx_for_swap(swap_params); a raised build is the None of line 228
build_tx_for_swap(params, wallet, chain, resp, nres, est) ==
    LET req == rate_limit_pause("swap") \o <<
                 Ev("api", "swap", resp.status = "ok",
                    api_request_url("/swap",
                        [params EXCEPT !.src = to_checksum_address(params.src),
                                       !.dst = to_checksum_address(params.dst),
                                       !.from = to_checksum_address(params.from)]))>>
        nonceCall == <<Ev("nonce", "swap", nres # Raised, nres)>>
        estCall == <<Ev("estimate_gas", "swap", est # Raised, est)>>
        enriched == swap_enrich(resp.tx, wallet, nres, chain)
        estimated == swap_needs_estimate(enriched)
        withGas == IF estimated THEN [enriched EXCEPT !.gas = swap_gas(est)] ELSE enriched
        calls == req \o nonceCall \o (IF estimated THEN estCall ELSE <<>>)
    IN CASE resp.status # "ok" -> Built(TRUE, NoTx, req)
         [] resp.status = "ok" /\ enriched.to = BadAddress -> Built(TRUE, NoTx, req)
         [] resp.status = "ok" /\ enriched.to # BadAddress /\ nres = Raised ->
                Built(TRUE, NoTx, req \o nonceCall)
         [] OTHER ->
                IF ConvertRaised(withGas)
                THEN Built(TRUE, NoTx, calls)
                ELSE Built(FALSE, convert_numeric(withGas), calls)

(***************************************************************************)
(* The approval path of perform_swap (lines 269-291).                      *)
(***************************************************************************)
\* lines 271-291: the builder re-raises (line 173), so a failed build leaves perform_swap
BuildApprove ==
    /\ pc = "approve_build"
    /\ \E resp \in PayloadResponses(ApprovePayloads), nres \in NonceResults, est \in EstimateResults :
          LET b == build_tx_for_approve(src_token, wallet_address, request.chain_id, resp, nres, est)
          IN /\ log' = log \o b.log
             /\ quoted_tx' = resp.tx
             /\ IF b.raised
                THEN /\ Http500
                     /\ UNCHANGED approval_tx
                ELSE /\ approval_tx' = b.tx
                     /\ pc' = "approve_sign"
                     /\ UNCHANGED response
    /\ UNCHANGED <<suspended, AUTO_APPROVE, request, wallet_address, rpc_url, src_token, dst_token, allowance,
                   swap_tx, signed_tx, result>>

\* lines 278 and 232-241: the gas check and the local signature; the check writes into the caller's dict
SignApprove ==
    /\ pc = "approve_sign"
    /\ approval_tx' = ensure_gas(approval_tx)
    /\ signed_tx' = ensure_gas(approval_tx)
    /\ \E ok \in BOOLEAN :
          /\ log' = Append(log, Ev("sign", "approve", ok, request.private_key))
          /\ IF ok
             THEN /\ pc' = "approve_send"
                  /\ UNCHANGED response
             ELSE Http500
    /\ UNCHANGED <<suspended, quoted_tx, AUTO_APPROVE, request, wallet_address, rpc_url, src_token, dst_token, allowance,
                   swap_tx, result>>

\* lines 280-285 without the receipt wait of line 284
after_approval_send_nowait == "swap_build"

\* lines 280-285: what follows an approval hash
after_approval_send == "approve_wait"

\* lines 242-246 and 278-282: the broadcast of the approval and the hash kept in result
SendApprove ==
    /\ pc = "approve_send"
    /\ signed_tx' = NoTx
    /\ quoted_tx' = NoTx
    /\ \E h \in SendResults("approve") :
          /\ log' = Append(log, Ev("send", "approve", h # "raised", h))
          /\ IF h = "raised"
             THEN /\ Http500
                  /\ UNCHANGED result
             ELSE /\ result' = [result EXCEPT !.approval_tx_hash = h]
                  /\ pc' = after_approval_send
                  /\ UNCHANGED response
    /\ UNCHANGED <<suspended, AUTO_APPROVE, request, wallet_address, rpc_url, src_token, dst_token, allowance,
                   approval_tx, swap_tx>>

\* lines 283-285: wait_for_transaction_receipt returns the receipt or raises
WaitApproval ==
    /\ pc = "approve_wait"
    /\ \E ok \in BOOLEAN :
          /\ log' = Append(log, Ev("receipt", "approve", ok, result.approval_tx_hash))
          /\ IF ok
             THEN /\ pc' = "swap_build"
                  /\ UNCHANGED response
             ELSE Http500
    /\ UNCHANGED <<suspended, quoted_tx, AUTO_APPROVE, request, wallet_address, rpc_url, src_token, dst_token, allowance,
                   approval_tx, swap_tx, signed_tx, result>>

(***************************************************************************)
(* The swap path of perform_swap (lines 296-330).                          *)
(***************************************************************************)
\* lines 328-330 returning the result untouched
swap_build_failed_result_no_message(res) == res

\* lines 328-330: the result of a swap that could not be built
swap_build_failed_result(res) ==
    [res EXCEPT !.message = "Failed to build swap transaction"]

\* lines 296-310 and 328-330
BuildSwap ==
    /\ pc = "swap_build"
    /\ \E resp \in PayloadResponses(SwapPayloads), nres \in NonceResults, est \in EstimateResults :
          LET b == build_tx_for_swap(swap_params(src_token, dst_token, request.amount, wallet_address),
                                     wallet_address, request.chain_id, resp, nres, est)
          IN /\ quoted_tx' = resp.tx
             /\ log' = log \o <<Ev("sleep", "swap", TRUE, 2)>> \o b.log
             /\ IF b.raised
                THEN /\ result' = swap_build_failed_result(result)
                     /\ Return
                     /\ UNCHANGED swap_tx
                ELSE /\ swap_tx' = b.tx
                     /\ pc' = "swap_sign"
                     /\ UNCHANGED <<result, response>>
    /\ UNCHANGED <<suspended, AUTO_APPROVE, request, wallet_address, rpc_url, src_token, dst_token, allowance,
                   approval_tx, signed_tx>>

\* lines 317 and 232-241
SignSwap ==
    /\ pc = "swap_sign"
    /\ swap_tx' = ensure_gas(swap_tx)
    /\ signed_tx' = ensure_gas(swap_tx)
    /\ \E ok \in BOOLEAN :
          /\ log' = Append(log, Ev("sign", "swap", ok, request.private_key))
          /\ IF ok
             THEN /\ pc' = "swap_send"
                  /\ UNCHANGED response
             ELSE Http500
    /\ UNCHANGED <<suspended, quoted_tx, AUTO_APPROVE, request, wallet_address, rpc_url, src_token, dst_token, allowance,
                   approval_tx, result>>

\* lines 319-324 with a receipt wait, as for the approval, before the return
after_swap_send_wait == "approve_wait"

\* lines 319-324: what follows a swap hash is the return of line 324
after_swap_send == "done"

\* lines 319-324 with the hash left out of the result
swap_sent_result_no_hash(res, h) ==
    [res EXCEPT !.success = TRUE,
                !.message = "Swap completed successfully"]

\* lines 319-324: the result of a swap that was broadcast
swap_sent_result(res, h) ==
    [res EXCEPT !.success = TRUE,
                !.message = "Swap completed successfully",
                !.tx_hash = h]

\* lines 242-246 and 317-324: the broadcast of the swap and the success outcome
SendSwap ==
    /\ pc = "swap_send"
    /\ signed_tx' = NoTx
    /\ quoted_tx' = NoTx
    /\ \E h \in SendResults("swap") :
          /\ log' = Append(log, Ev("send", "swap", h # "raised", h))
          /\ IF h = "raised"
             THEN /\ Http500
                  /\ UNCHANGED result
             ELSE /\ result' = swap_sent_result(result, h)
                  /\ pc' = after_swap_send
                  /\ response' = IF after_swap_send = "done" THEN "outcome" ELSE response
    /\ UNCHANGED <<suspended, AUTO_APPROVE, request, wallet_address, rpc_url, src_token, dst_token, allowance,
                   approval_tx, swap_tx>>

Next ==
    \/ ReceiveRequest
    \/ Setup
    \/ PerformSwapBegin
    \/ CheckAllowance
    \/ Decide
    \/ BuildApprove
    \/ SignApprove
    \/ SendApprove
    \/ WaitApproval
    \/ BuildSwap
    \/ SignSwap
    \/ SendSwap

Spec == Init /\ [][Next]_vars

\* the steps of a request that was received: one thread runs them to the end, and every
\* pause, request and wait of the code returns or raises
RequestStep ==
    \/ Setup
    \/ PerformSwapBegin
    \/ CheckAllowance
    \/ Decide
    \/ BuildApprove
    \/ SignApprove
    \/ SendApprove
    \/ WaitApproval
    \/ BuildSwap
    \/ SignSwap
    \/ SendSwap

\* a POST /swap arrives, one of the requests that differ in the private key only
ReceiveKeyRequest ==
    /\ pc = "idle"
    /\ \E r \in KeyRequests : request' = r
    /\ pc' = "setup"
    /\ UNCHANGED <<suspended, AUTO_APPROVE, wallet_address, rpc_url, src_token, dst_token, allowance,
                   approval_tx, swap_tx, quoted_tx, signed_tx, result, response, log>>

NextKeys == ReceiveKeyRequest \/ RequestStep

SpecKeys == Init /\ [][NextKeys]_vars

FairSpec == SpecKeys /\ WF_vars(RequestStep)

(***************************************************************************)
(* Two requests in flight.  swap_tokens is a coroutine of one event loop:  *)
(* the loop leaves a request only where it awaits a pause (lines 135 and   *)
(* 297), before it has started and after it has returned, and then runs    *)
(* the other one.  The variables above hold the request that runs,         *)
(* suspended holds the one that waits.                                     *)
(***************************************************************************)
\* two callers, each with a wallet, a key, a chain and a source token of their own
PairRequests ==
    {[wallet_address |-> Addr("wallet", "lower"), private_key |-> "key1", chain_id |-> 1,
      src_token |-> Addr("src", "lower"), dst_token |-> Addr("dst", "mixed"),
      amount |-> StrV(<<"1">>)],
     [wallet_address |-> Addr("wallet2", "lower"), private_key |-> "key2", chain_id |-> 10,
      src_token |-> Addr("src2", "lower"), dst_token |-> Addr("dst", "mixed"),
      amount |-> StrV(<<"1">>)]}

\* a POST /swap arrives from the caller whose request is not in flight yet
ReceivePairRequest ==
    /\ pc = "idle"
    /\ \E r \in PairRequests :
          /\ r # suspended.request
          /\ request' = r
    /\ pc' = "setup"
    /\ UNCHANGED <<suspended, AUTO_APPROVE, wallet_address, rpc_url, src_token, dst_token, allowance,
                   approval_tx, swap_tx, quoted_tx, signed_tx, result, response, log>>

\* the answers the two services give while two requests are in flight: one allowance
\* of 0 or 1, one payload per builder, one nonce and one estimate, or a failure of the call
PairAnswers ==
    /\ allowance \in {NoneV, StrV(<<"0">>), StrV(<<"1">>)}
    /\ quoted_tx \in {NoTx,
                      Tx(Addr("router", "lower"), NoAddr, Absent, Absent,
                         StrV(<<"0", "x", "1", "0">>), Absent, Absent),
                      Tx(Addr("router", "lower"), Addr("wallet", "lower"), Absent, Absent,
                         StrV(<<"1", "0">>), Absent, Absent)}
    /\ \A i \in DOMAIN log :
          /\ log[i].op = "nonce" => log[i].data \in {IntV(0), Raised}
          /\ log[i].op = "estimate_gas" => log[i].data \in {IntV(1), Raised}

\* a step of the request that runs
PairStep == RequestStep /\ PairAnswers'

\* where the event loop can leave the request that runs
YieldPoints == {"idle", "setup", "approve_build", "swap_build", "done"}

\* line 335 with one InchSwapper built at import and shared by the requests
resumed_shared_swapper(f) ==
    [f EXCEPT !.wallet_address = wallet_address, !.rpc_url = rpc_url]

\* lines 335-346: a request resumes with the InchSwapper and the locals it left
resumed(f) == f

\* the event loop leaves the request that runs and resumes the other one
Switch ==
    /\ pc \in YieldPoints
    /\ suspended' = Frame
    /\ pc' = resumed(suspended).pc
    /\ request' = resumed(suspended).request
    /\ wallet_address' = resumed(suspended).wallet_address
    /\ rpc_url' = resumed(suspended).rpc_url
    /\ src_token' = resumed(suspended).src_token
    /\ dst_token' = resumed(suspended).dst_token
    /\ allowance' = resumed(suspended).allowance
    /\ approval_tx' = resumed(suspended).approval_tx
    /\ swap_tx' = resumed(suspended).swap_tx
    /\ quoted_tx' = resumed(suspended).quoted_tx
    /\ signed_tx' = resumed(suspended).signed_tx
    /\ result' = resumed(suspended).result
    /\ response' = resumed(suspended).response
    /\ log' = resumed(suspended).log
    /\ UNCHANGED AUTO_APPROVE

NextPair == ReceivePairRequest \/ PairStep \/ Switch

SpecPair == Init /\ [][NextPair]_vars

(***************************************************************************)
(* Vocabulary of the properties.                                           *)
(***************************************************************************)
\* the positions in the log of the calls of one kind made in one phase
Calls(op, phase) == {i \in DOMAIN log : log[i].op = op /\ log[i].phase = phase}
OkCalls(op, phase) == {i \in Calls(op, phase) : log[i].ok}
FailedCalls(op, phase) == {i \in Calls(op, phase) : ~log[i].ok}

\* the allowance check has returned and both numbers of line 265 parse
Parsed == PyInt(allowance) # Raised /\ PyInt(request.amount) # Raised
AllowanceShort == Parsed /\ PyInt(allowance).v < PyInt(request.amount).v
AllowanceEnough == Parsed /\ PyInt(allowance).v >= PyInt(request.amount).v

\* C1: with allowance < amount and auto-approval on, a swap payload request is
\* only ever issued after exactly one approval broadcast and, after that
\* broadcast, the completed receipt wait; never is a second approval broadcast.
C1_ApprovalConfirmedBeforeSwapBuild ==
    (AllowanceShort /\ AUTO_APPROVE) =>
        /\ Cardinality(Calls("send", "approve")) <= 1
        /\ \A i \in Calls("api", "swap") :
              /\ Cardinality(OkCalls("send", "approve")) = 1
              /\ \E j \in OkCalls("send", "approve"), k \in OkCalls("receipt", "approve") :
                    j < k /\ k < i

C1_Witness ==
    AllowanceShort /\ AUTO_APPROVE /\ Calls("api", "swap") # {}

\* C2: with allowance >= amount no approval payload is requested, no approval
\* is signed or broadcast, and result never holds an approval hash, whatever
\* happens to the swap afterwards.
C2_NoApprovalWhenEnough ==
    AllowanceEnough =>
        /\ Calls("api", "approve") = {}
        /\ Calls("sign", "approve") = {}
        /\ Calls("send", "approve") = {}
        /\ approval_tx = NoTx
        /\ result.approval_tx_hash = NoHash

C2_Witness ==
    /\ AllowanceEnough
    /\ pc = "done"
    /\ Calls("api", "swap") # {}
    /\ ~result.success

\* C3: with allowance < amount and auto-approval off the request ends in a
\* failure outcome without any hash, and no payload was requested and nothing
\* was signed or broadcast.
C3_FailureWhenAutoApproveOff ==
    (AllowanceShort /\ ~AUTO_APPROVE) =>
        /\ Calls("api", "approve") = {} /\ Calls("api", "swap") = {}
        /\ \A i \in DOMAIN log : log[i].op \notin {"sign", "send"}
        /\ pc \in {"decide", "done"}
        /\ pc = "done" =>
              /\ response = "outcome"
              /\ ~result.success
              /\ result.message # ""
              /\ result.tx_hash = NoHash
              /\ result.approval_tx_hash = NoHash

C3_Witness ==
    AllowanceShort /\ ~AUTO_APPROVE /\ pc = "done"

\* the caller got a SwapOutcome that reports a failure with a message
FailedOutcome ==
    response = "outcome" /\ ~result.success /\ result.message # ""

\* the approval was broadcast and its receipt wait completed
ApprovalConfirmed ==
    OkCalls("send", "approve") # {} /\ OkCalls("receipt", "approve") # {}

\* the swap step failed: its payload request or build failed, or its signing or broadcast failed
SwapStepFailed ==
    \/ FailedCalls("api", "swap") # {}
    \/ FailedCalls("sign", "swap") # {}
    \/ FailedCalls("send", "swap") # {}
    \/ (Calls("api", "swap") # {} /\ pc = "done" /\ Calls("sign", "swap") = {})

\* C4: once the approval was broadcast and confirmed and the swap step has
\* failed, the caller of /swap gets a failure outcome with a message and with
\* approval_tx_hash equal to the hash of the approval transaction.
C4_ApprovalHashReportedOnSwapFailure ==
    (pc = "done" /\ ApprovalConfirmed /\ SwapStepFailed) =>
        /\ FailedOutcome
        /\ result.approval_tx_hash = TxHash("approve")

\* C5: a failed signing or broadcast, of the approval or of the swap, reaches
\* the caller as a failure outcome with a message, and no sign or broadcast
\* call follows the failed one.
C5_SignFailureIsFailedOutcome ==
    \A i \in DOMAIN log :
        (log[i].op \in {"sign", "send"} /\ ~log[i].ok) =>
            /\ \A j \in DOMAIN log : j > i => log[j].op \notin {"sign", "send"}
            /\ pc = "done" => FailedOutcome

\* C6: a failed build of the approval payload or of the swap payload ends the
\* request with a failure outcome that has a message, and nothing is signed
\* or broadcast for that step or after it.
C6_BuildFailureIsFailedOutcome ==
    \A i \in DOMAIN log :
        (log[i].op = "api" /\ log[i].phase \in {"approve", "swap"} /\ ~log[i].ok) =>
            /\ \A j \in DOMAIN log : j > i => log[j].op \notin {"sign", "send"}
            /\ pc = "done"
            /\ FailedOutcome

\* C7: when the allowance lookup fails with an HTTP error, check_allowance
\* returns "0" and the failure does not reach the caller; with a positive
\* amount the decision is 'insufficient', so with auto-approval on the approval
\* payload is requested next and no swap payload is requested unless an
\* approval was broadcast.
C7_AllowanceFailureForcesApproval ==
    FailedCalls("api", "allowance") # {} =>
        /\ allowance = StrV(<<"0">>)
        /\ (pc = "decide" => response = "none")
        /\ (PyInt(request.amount) # Raised /\ PyInt(request.amount).v > 0 /\ pc # "decide") =>
              /\ response = "http500" => Calls("api", "approve") # {}
              /\ AUTO_APPROVE => (pc = "approve_build" \/ Calls("api", "approve") # {})
              /\ Calls("api", "swap") # {} => OkCalls("send", "approve") # {}

C7_Witness ==
    /\ FailedCalls("api", "allowance") # {}
    /\ PyInt(request.amount) # Raised /\ PyInt(request.amount).v > 0
    /\ AUTO_APPROVE
    /\ OkCalls("send", "approve") # {}

\* C8: the endpoint a request runs on is the one entry of the table for its
\* chain ID, and every request for chain 1, 10, 8453 or 42161 whose
\* constructor gets as far as the table gets that endpoint; a request for any
\* other chain ID ends in an error with no call made to the quoting service or
\* the chain node and no step of perform_swap run.
C8_EndpointResolution ==
    /\ rpc_url # "None" =>
          /\ request.chain_id \in {1, 10, 8453, 42161}
          /\ rpc_url = chain_rpc_urls[request.chain_id]
    /\ (pc \notin {"idle", "setup"} /\ request.chain_id \in {1, 10, 8453, 42161}
            /\ request.wallet_address.form # "bad") => rpc_url # "None"
    /\ (pc \notin {"idle", "setup"} /\ request.chain_id \notin {1, 10, 8453, 42161}) =>
          /\ pc = "done"
          /\ response = "http500"
          /\ log = <<>>
          /\ src_token = NoAddr /\ dst_token = NoAddr /\ allowance = NoneV
          /\ result = NoResult

C8_Witness ==
    /\ pc = "done"
    /\ request.chain_id \notin {1, 10, 8453, 42161}
    /\ request.wallet_address.form # "bad"

\* the state right after sign_and_send_transaction handed a transaction to the signer
AtSigner == log # <<>> /\ log[Len(log)].op = "sign"
SignerPhase == log[Len(log)].phase
\* the transaction count the node returned during the build of that phase
NonceRead(phase) == log[CHOOSE i \in Calls("nonce", phase) : \A j \in Calls("nonce", phase) : j <= i].data

\* what C9's fields from, nonce and chainId must be
SignerCommonFields ==
    /\ signed_tx.from = Addr(request.wallet_address.id, "checksum")
    /\ signed_tx.from = wallet_address
    /\ signed_tx.nonce = NonceRead(SignerPhase)
    /\ signed_tx.chainId = IntV(request.chain_id)

\* C9 as stated: value is zero unless the payload held a value, which is then kept
C9_Original_ValueZeroUnlessPresent ==
    AtSigner =>
        /\ SignerCommonFields
        /\ signed_tx.value = IF quoted_tx.value = Absent THEN IntV(0) ELSE ToNativeInt(quoted_tx.value)

\* C9 (amended): the transaction handed to the signer has from = the canonical
\* wallet address, nonce = the count read from the node during that build and
\* chainId = the requested chain ID; the approval's value is always 0, whatever
\* the payload held; the swap's value is the payload's value as an integer
\* when the payload held one and stays absent otherwise.
C9_SignerFields ==
    AtSigner =>
        /\ SignerCommonFields
        /\ SignerPhase = "approve" => signed_tx.value = IntV(0)
        /\ SignerPhase = "swap" =>
              signed_tx.value = IF quoted_tx.value = Absent THEN Absent ELSE ToNativeInt(quoted_tx.value)

C9_Witness ==
    /\ AtSigner
    /\ SignerPhase = "swap"
    /\ Calls("sign", "approve") # {}
    /\ quoted_tx.value = StrV(<<"0", "x", "1", "0">>)
    /\ signed_tx.value = IntV(16)

\* the last call of the log is a failed gas estimate of the phase
EndsWithFailedEstimate(phase) ==
    log # <<>> /\ log[Len(log)].op = "estimate_gas" /\ log[Len(log)].phase = phase /\ ~log[Len(log)].ok

\* C10: after a failed gas estimate in a build, the transaction built has
\* gas = 500000, that is the gas the signer gets, and the build does not end
\* the request: it stops right after the failed estimate only when a numeric
\* field of the payload does not convert.
C10_GasFallback ==
    /\ FailedCalls("estimate_gas", "approve") # {} =>
          /\ approval_tx # NoTx => approval_tx.gas = IntV(500000)
          /\ (AtSigner /\ SignerPhase = "approve") => signed_tx.gas = IntV(500000)
          /\ (pc = "done" /\ EndsWithFailedEstimate("approve")) =>
                ToNativeInt(quoted_tx.gasPrice) = Raised
          /\ ToNativeInt(quoted_tx.gasPrice) # Raised /\ EndsWithFailedEstimate("approve") =>
                pc = "approve_sign"
    /\ FailedCalls("estimate_gas", "swap") # {} =>
          /\ swap_tx # NoTx => swap_tx.gas = IntV(500000)
          /\ (AtSigner /\ SignerPhase = "swap") => signed_tx.gas = IntV(500000)
          /\ (pc = "done" /\ EndsWithFailedEstimate("swap")) =>
                (ToNativeInt(quoted_tx.gasPrice) = Raised \/ ToNativeInt(quoted_tx.value) = Raised)
          /\ (ToNativeInt(quoted_tx.gasPrice) # Raised /\ ToNativeInt(quoted_tx.value) # Raised
                  /\ EndsWithFailedEstimate("swap")) =>
                pc = "swap_sign"

C10_Witness ==
    /\ FailedCalls("estimate_gas", "approve") # {}
    /\ FailedCalls("estimate_gas", "swap") # {}
    /\ OkCalls("send", "swap") # {}

RECURSIVE Pow(_, _)
Pow(b, n) == IF n = 0 THEN 1 ELSE b * Pow(b, n - 1)

RECURSIVE PositionalSum(_, _, _)
\* the sum over the positions i..Len(digs) of digit * base^(distance to the last position)
PositionalSum(digs, b, i) ==
    IF i > Len(digs) THEN 0
    ELSE DigitVal[digs[i]] * Pow(b, Len(digs) - i) + PositionalSum(digs, b, i + 1)

\* the integer a numeral of the quoting service denotes: base 16 after 0x, base 10 otherwise
Denoted(x) ==
    IF x.t = "int" THEN x.v
    ELSE IF Len(x.v) >= 2 /\ SubSeq(x.v, 1, 2) = <<"0", "x">>
         THEN PositionalSum(SubSeq(x.v, 3, Len(x.v)), 16, 1)
         ELSE PositionalSum(x.v, 10, 1)

\* C11: in the transaction handed to the signer each of gas, gasPrice, value
\* and nonce that is present is an int; a gasPrice or (for the swap) a value or
\* a non-zero gas that the quoting service sent as a hexadecimal or decimal
\* string or as a number is the integer that numeral denotes.
C11_NumericFieldsNative ==
    AtSigner =>
        /\ \A k \in NumericKeys : signed_tx[k].t \in {"int", "absent"}
        /\ quoted_tx.gasPrice # Absent => signed_tx.gasPrice = IntV(Denoted(quoted_tx.gasPrice))
        /\ SignerPhase = "swap" =>
              /\ quoted_tx.value # Absent => signed_tx.value = IntV(Denoted(quoted_tx.value))
              /\ (quoted_tx.gas # Absent /\ Denoted(quoted_tx.gas) # 0) =>
                    signed_tx.gas = IntV(Denoted(quoted_tx.gas))

C11_Witness ==
    /\ AtSigner
    /\ SignerPhase = "swap"
    /\ quoted_tx.gasPrice = StrV(<<"1", "0">>) /\ signed_tx.gasPrice = IntV(10)
    /\ quoted_tx.value = StrV(<<"0", "x", "1", "0">>) /\ signed_tx.value = IntV(16)
    /\ quoted_tx.gas = StrV(<<"0", "x", "1", "f">>) /\ signed_tx.gas = IntV(31)

\* a token address of the request as perform_swap passes it on: canonical when it carries 0x
PublicToken(a) == IF a.form = "noprefix" THEN a ELSE Addr(a.id, "checksum")

\* the request to the quoting service of each phase, written from the fields
\* of the SwapRequest other than private_key
PublicApiRequest(phase) ==
    CASE phase = "allowance" ->
            [method |-> "/approve/allowance",
             params |-> [tokenAddress |-> PublicToken(request.src_token),
                         walletAddress |-> Addr(request.wallet_address.id, "checksum")],
             headers |-> "INCH_API_KEY"]
      [] phase = "approve" ->
            [method |-> "/approve/transaction",
             params |-> [tokenAddress |-> PublicToken(request.src_token)],
             headers |-> "INCH_API_KEY"]
      [] phase = "swap" ->
            [method |-> "/swap",
             params |-> [src |-> PublicToken(request.src_token),
                         dst |-> PublicToken(request.dst_token),
                         amount |-> request.amount,
                         from |-> Addr(request.wallet_address.id, "checksum"),
                         slippage |-> "slippage",
                         disableEstimate |-> FALSE,
                         allowPartialFill |-> TRUE],
             headers |-> "INCH_API_KEY"]

\* C12: every request sent to the quoting service (method, query parameters,
\* headers) is determined by the fields of the SwapRequest other than the
\* private key, so two runs that differ only in the private key send the same
\* requests; the key is passed to the local signer only.
C12_KeyNeverSentToQuotingService ==
    \A i \in DOMAIN log :
        /\ log[i].op = "api" =>
              /\ log[i].data = PublicApiRequest(log[i].phase)
              /\ log[i].data.headers # request.private_key
        /\ log[i].op = "sign" => log[i].data = request.private_key

C12_Witness ==
    /\ request.private_key = "key2"
    /\ Calls("api", "allowance") # {}
    /\ Calls("api", "approve") # {}
    /\ Calls("api", "swap") # {}
    /\ OkCalls("sign", "swap") # {}

\* C13: every address sent to the quoting service (the address parameters of
\* a request), passed to the chain node (the wallet address) or held by the
\* transaction handed to the signer (to, from) is in canonical checksummed
\* form, whatever form the request's address strings had.
C13_AddressesCanonical ==
    /\ \A i \in Calls("api", "allowance") \cup Calls("api", "approve") \cup Calls("api", "swap") :
          \A k \in DOMAIN log[i].data.params \cap AddressKeys :
              log[i].data.params[k].form = "checksum"
    /\ wallet_address # NoAddr => wallet_address.form = "checksum"
    /\ AtSigner =>
          /\ signed_tx.from.form = "checksum"
          /\ signed_tx.to # NoAddr => signed_tx.to.form = "checksum"

\* the calls made so far without the pauses, each as <<op, phase>>
CallSeq ==
    LET calls == SelectSeq(log, LAMBDA e : e.op # "sleep")
    IN [i \in DOMAIN calls |-> <<calls[i].op, calls[i].phase>>]

\* the calls of the approval path up to the swap payload's nonce
ApprovalPathCalls ==
    <<<<"api", "allowance">>,
      <<"api", "approve">>, <<"nonce", "approve">>, <<"estimate_gas", "approve">>,
      <<"sign", "approve">>, <<"send", "approve">>, <<"receipt", "approve">>,
      <<"api", "swap">>, <<"nonce", "swap">>>>

\* every call made succeeded and the payload of the build that ran last was usable
EveryCallSucceeded ==
    /\ \A i \in DOMAIN log : log[i].ok
    /\ quoted_tx # NoTx => \A k \in {"gas", "gasPrice", "value"} : ToNativeInt(quoted_tx[k]) # Raised

\* a request with allowance < amount, auto-approval on and no failing call, at its end
C14_Succeeded ==
    (pc = "done" /\ AllowanceShort /\ AUTO_APPROVE /\ EveryCallSucceeded) =>
        /\ CallSeq \in
              {ApprovalPathCalls \o <<<<"sign", "swap">>, <<"send", "swap">>>>,
               ApprovalPathCalls \o <<<<"estimate_gas", "swap">>, <<"sign", "swap">>, <<"send", "swap">>>>}
        /\ response = "outcome"
        /\ result.success
        /\ \A i \in Calls("send", "approve") : result.approval_tx_hash = log[i].data
        /\ \A i \in Calls("send", "swap") : result.tx_hash = log[i].data
        /\ result.approval_tx_hash # NoHash /\ result.tx_hash # NoHash

\* C14: a received request always ends; when allowance < amount, auto-approval
\* is on and every external call succeeded, it has made the calls of the
\* approval path and then of the swap in the workflow's order and ends with
\* success = true and both hashes equal to the hashes the two broadcasts returned.
C14_ApprovalPathSucceeds ==
    /\ []C14_Succeeded
    /\ (pc = "setup") ~> (pc = "done")

C14_Witness ==
    /\ pc = "done" /\ AllowanceShort /\ AUTO_APPROVE /\ EveryCallSucceeded
    /\ result.success
    /\ result.approval_tx_hash = "0xaa" /\ result.tx_hash = "0xbb"

\* C15: a receipt is looked up for the approval only and never after the swap
\* was broadcast; once the swap broadcast has returned a hash the request is
\* over with the success outcome, that broadcast being its last call, and
\* success is reported only after such a broadcast.
C15_SwapNotAwaited ==
    /\ \A i \in DOMAIN log :
          log[i].op = "receipt" =>
              /\ log[i].phase = "approve"
              /\ log[i].data = TxHash("approve")
              /\ \A j \in Calls("send", "swap") : i < j
    /\ OkCalls("send", "swap") # {} =>
          /\ pc = "done"
          /\ response = "outcome"
          /\ result.success
          /\ log[Len(log)].op = "send" /\ log[Len(log)].phase = "swap"
    /\ result.success => OkCalls("send", "swap") # {}

C15_Witness ==
    /\ OkCalls("send", "swap") # {}
    /\ OkCalls("receipt", "approve") # {}
    /\ result.success

\* C17: every request to the quoting service is the call right after a
\* completed pause of the same operation (1, 2 and 3 time units for the
\* allowance lookup, the approval payload and the swap payload), so no two
\* requests follow each other, and none opens a run, without a pause.
C17_PauseBeforeEveryRequest ==
    \A i \in DOMAIN log :
        log[i].op = "api" =>
            /\ i > 1
            /\ log[i - 1].op = "sleep"
            /\ log[i - 1].ok
            /\ log[i - 1].phase = log[i].phase
            /\ log[i - 1].data =
                  (CASE log[i].phase = "allowance" -> 1 [] log[i].phase = "approve" -> 2 [] OTHER -> 3)

C17_Witness ==
    /\ Calls("api", "allowance") # {}
    /\ Calls("api", "approve") # {}
    /\ Calls("api", "swap") # {}

\* C18: in every outcome perform_swap returns, success holds exactly when
\* tx_hash is set, and then it is the hash of the swap broadcast;
\* approval_tx_hash is set only when the approval was broadcast and its
\* receipt wait completed in this request; an outcome without success has a
\* non-empty message.
C18_OutcomeConsistent ==
    response = "outcome" =>
        /\ result.success <=> result.tx_hash # NoHash
        /\ result.tx_hash # NoHash =>
              \E i \in OkCalls("send", "swap") : log[i].data = result.tx_hash
        /\ result.approval_tx_hash # NoHash =>
              \E i \in OkCalls("send", "approve"), j \in OkCalls("receipt", "approve") :
                  i < j /\ log[i].data = result.approval_tx_hash
        /\ ~result.success => result.message # ""

C18_Witness ==
    /\ response = "outcome"
    /\ ~result.success
    /\ result.approval_tx_hash # NoHash

\* the gas estimate the node returned last in a phase
LastEstimate(phase) ==
    log[CHOOSE i \in Calls("estimate_gas", phase) : \A j \in Calls("estimate_gas", phase) : j <= i].data

\* C19: the transaction handed to the signer always has a gas that is an int
\* other than 0; it is 500000 whenever the gas the builder arrived at was 0,
\* that is when the swap payload's gas was the string "0" or "0x0", or when
\* the estimate of that build was 0 or failed.
C19_GasPresentAtSigner ==
    AtSigner =>
        /\ signed_tx.gas.t = "int"
        /\ signed_tx.gas.v # 0
        /\ (SignerPhase = "swap" /\ quoted_tx.gas \in {StrV(<<"0">>), StrV(<<"0", "x", "0">>)}) =>
              signed_tx.gas = IntV(500000)
        /\ (Calls("estimate_gas", SignerPhase) # {} /\ LastEstimate(SignerPhase) \in {IntV(0), Raised}) =>
              signed_tx.gas = IntV(500000)

C19_Witness ==
    /\ AtSigner
    /\ SignerPhase = "swap"
    /\ quoted_tx.gas = StrV(<<"0", "x", "0">>)
    /\ signed_tx.gas = IntV(500000)
    /\ log[Len(log)].ok

\* C20: the approval payload request has the source token address as its
\* only query parameter: it carries no amount, whatever the amount of the
\* swap and the allowance found.
C20_ApprovalRequestWithoutAmount ==
    \A i \in Calls("api", "approve") :
        /\ DOMAIN log[i].data.params = {"tokenAddress"}
        /\ log[i].data.params.tokenAddress.id = request.src_token.id
        /\ log[i].data.method = "/approve/transaction"

C20_Witness ==
    /\ OkCalls("send", "approve") # {}
    /\ PyInt(request.amount) = IntV(1)

\* the rank of a call in the workflow of perform_swap
CallRank(e) ==
    CASE e.phase = "allowance" -> 1
      [] e.phase = "approve" ->
            (CASE e.op = "api" -> 2 [] e.op = "nonce" -> 3 [] e.op = "estimate_gas" -> 4
               [] e.op = "sign" -> 5 [] e.op = "send" -> 6 [] OTHER -> 7)
      [] OTHER ->
            (CASE e.op = "api" -> 8 [] e.op = "nonce" -> 9 [] e.op = "estimate_gas" -> 10
               [] e.op = "sign" -> 11 [] OTHER -> 12)

\* the calls of a frame, pauses left out, are in workflow order, none made twice
StepsInOrder(f) ==
    LET calls == SelectSeq(f.log, LAMBDA e : e.op # "sleep")
    IN \A i, j \in DOMAIN calls : i < j => CallRank(calls[i]) < CallRank(calls[j])

\* what a frame holds and every call it made is written from its own request
OwnData(f) ==
    /\ f.wallet_address.id \in {"none", f.request.wallet_address.id}
    /\ f.src_token.id \in {"none", f.request.src_token.id}
    /\ f.rpc_url \in {"None", resolve_rpc(f.request.chain_id)}
    /\ \A k \in {"approval_tx", "swap_tx", "signed_tx"} :
          f[k] # NoTx => /\ f[k].from.id = f.request.wallet_address.id
                         /\ f[k].chainId = IntV(f.request.chain_id)
    /\ \A i \in DOMAIN f.log :
          /\ f.log[i].op = "sign" => f.log[i].data = f.request.private_key
          /\ f.log[i].op = "api" =>
                \A k \in DOMAIN f.log[i].data.params :
                    /\ k \in {"tokenAddress", "src"} =>
                          f.log[i].data.params[k].id = f.request.src_token.id
                    /\ k \in {"walletAddress", "from"} =>
                          f.log[i].data.params[k].id = f.request.wallet_address.id
                    /\ k = "amount" => f.log[i].data.params[k] = f.request.amount

\* the outcome of a frame is the one its own calls lead to
OwnOutcome(f) ==
    LET sent(phase) == \E i \in DOMAIN f.log :
                          f.log[i].op = "send" /\ f.log[i].phase = phase /\ f.log[i].ok
    IN /\ f.result.success <=> sent("swap")
       /\ f.result.approval_tx_hash # NoHash <=> sent("approve")
       /\ f.response = "none" <=> f.pc # "done"

FrameSound(f) == StepsInOrder(f) /\ OwnData(f) /\ OwnOutcome(f)

\* C16: with two requests in flight, the calls of each are in the order of
\* the workflow and written from its own request, and its outcome is the one
\* its own calls lead to; a step of one request leaves the frame of the
\* other untouched, a switch exchanges the two frames unaltered, and the
\* auto-approval flag is never written.
C16_RequestsIsolated ==
    /\ [](FrameSound(Frame) /\ FrameSound(suspended))
    /\ [][IF suspended'.request.private_key = suspended.request.private_key
          THEN suspended' = suspended
          ELSE suspended' = Frame /\ Frame' = suspended]_vars
    /\ [][AUTO_APPROVE' = AUTO_APPROVE]_vars

\* both requests were interleaved: each went through its approval and its swap,
\* and the one that runs resumed after the other had made calls
C16_Witness ==
    /\ pc = "done" /\ suspended.pc = "done"
    /\ request.wallet_address.id = "wallet"
    /\ suspended.request.wallet_address.id = "wallet2"
    /\ result.success /\ suspended.result.success
    /\ result.approval_tx_hash # NoHash
    /\ suspended.result.approval_tx_hash # NoHash

====
